---------------------------- MODULE Spec2Model ----------------------------
(***************************************************************************)
(* Model of the two feed routes of MYRSSHUB:                               *)
(*   lib/routes/stockpicker/index.ts       (single-file mode)              *)
(*   lib/routes/rotation-monitor/index.ts  (paired-file mode)              *)
(*                                                                         *)
(* A file name is a sequence of characters (one-character strings), so the *)
(* regular expressions, slice, split and replace of the handlers are       *)
(* computed character by character.  A CSV text is a sequence of pieces:   *)
(* a piece is a separator (","), a white-space character, or a run of      *)
(* other characters written as one string.                                 *)
(***************************************************************************)
EXTENDS Integers, Sequences, FiniteSets, TLC

VARIABLES
    route,        \* which handler serves the request
    dir,          \* the directory on disk: readable flag and its listing
    baseUrl,      \* process.env.ROTATION_IMAGE_BASE_URL ("" when unset)
    pc,           \* position of the handler
    files,        \* result of readdir
    tasks,        \* the async callbacks handed to Promise.all, in array order
    reads,        \* number of readFile calls issued so far
    status,       \* ctx.status
    result,       \* <<feed>> once the handler has returned, else <<>>
    error,        \* what the handler's promise rejected with ("" while it has not)
    firstCompleted, \* index of the task whose readFile settled first (0: none yet)
    content,      \* text handed to parseCSV (parser specification)
    parsed        \* <<[by, records]>> once parseCSV has returned, else <<>>

vars == <<route, dir, baseUrl, pc, files, tasks, reads, status, result, error,
          firstCompleted, content, parsed>>

----------------------------------------------------------------------------
(* Bounds *)

MaxTextLen == 6
MaxPickerFiles == 3
MaxRotationFiles == 5

----------------------------------------------------------------------------
(* Strings *)

Min(S) == CHOOSE x \in S : \A y \in S : x <= y
Max(S) == CHOOSE x \in S : \A y \in S : x >= y

\* Characters String.prototype.trim removes.
Whitespace == {" ", "\t", "\n", "\r"}

Trim(s) ==
    LET keep == {i \in 1..Len(s) : s[i] \notin Whitespace}
    IN  IF keep = {} THEN <<>> ELSE SubSeq(s, Min(keep), Max(keep))

RECURSIVE SplitAcc(_, _, _, _)
SplitAcc(s, sep, i, cur) ==
    IF i > Len(s) THEN <<cur>>
    ELSE IF s[i] = sep THEN <<cur>> \o SplitAcc(s, sep, i + 1, <<>>)
    ELSE SplitAcc(s, sep, i + 1, Append(cur, s[i]))

\* String.prototype.split(sep) for a one-character separator.
Split(s, sep) == SplitAcc(s, sep, 1, <<>>)

\* String.prototype.split(sep, limit): the first `limit` pieces only.
SplitLimit(s, sep, limit) ==
    LET all == Split(s, sep)
    IN  SubSeq(all, 1, IF Len(all) < limit THEN Len(all) ELSE limit)

Slice(s, from, to) == SubSeq(s, from + 1, IF to < Len(s) THEN to ELSE Len(s))

EndsWith(s, suffix) ==
    /\ Len(s) >= Len(suffix)
    /\ SubSeq(s, Len(s) - Len(suffix) + 1, Len(s)) = suffix

Contains(s, part) ==
    \E i \in 1..(Len(s) + 1 - Len(part)) : SubSeq(s, i, i + Len(part) - 1) = part

\* cells.map((v) => v.trim())
TrimAll(cells) == [i \in 1..Len(cells) |-> Trim(cells[i])]

----------------------------------------------------------------------------
(* parseCSV *)

\* Mutant: `values[index]` without `|| dflt`.
ValueOrNoDefault(values, index, dflt) ==
    IF index <= Len(values) THEN values[index] ELSE <<"undefined">>

\* values[index] || dflt
ValueOr(values, index, dflt) ==
    IF index <= Len(values) /\ values[index] # <<>> THEN values[index] ELSE dflt

\* The object built by `record[header] = ...` over headers.entries(): a later
\* column of the same name overwrites an earlier one.
BuildRecord(headers, values, dflt) ==
    [h \in {headers[i] : i \in 1..Len(headers)} |->
        ValueOr(values, Max({i \in 1..Len(headers) : headers[i] = h}), dflt)]

StockCells(line) == TrimAll(Split(line, ","))

parseCSV_stockpicker(text) ==
    LET lines   == Split(Trim(text), "\n")
        headers == TrimAll(Split(lines[1], ","))
        rows    == SelectSeq(Tail(lines), LAMBDA line : Trim(line) # <<>>)
    IN  [k \in 1..Len(rows) |-> BuildRecord(headers, StockCells(rows[k]), <<>>)]

Dash == <<"-">>

TrimOrDash(v) == IF Trim(v) = <<>> THEN Dash ELSE Trim(v)

RotationCells(line) ==
    LET cells == Split(line, ",") IN [i \in 1..Len(cells) |-> TrimOrDash(cells[i])]

parseCSV_rotation(text) ==
    LET lines == Split(Trim(text), "\n")
    IN  IF Len(lines) < 1 THEN <<>>
        ELSE LET headers == TrimAll(Split(lines[1], ","))
                 rows    == SelectSeq(Tail(lines), LAMBDA line : Trim(line) # <<>>)
             IN  [k \in 1..Len(rows) |->
                     BuildRecord(headers, RotationCells(rows[k]), Dash)]

----------------------------------------------------------------------------
(* Characters, numbers and comparison *)

Digits == {"0", "1", "2", "3", "4", "5", "6", "7", "8", "9"}

Lower == <<"a", "b", "c", "d", "e", "f", "g", "h", "i", "j", "k", "l", "m",
           "n", "o", "p", "q", "r", "s", "t", "u", "v", "w", "x", "y", "z">>

Upper == <<"A", "B", "C", "D", "E", "F", "G", "H", "I", "J", "K", "L", "M",
           "N", "O", "P", "Q", "R", "S", "T", "U", "V", "W", "X", "Y", "Z">>

\* The class \w of a regular expression.
WordChars == Digits \cup {Lower[i] : i \in 1..26} \cup {Upper[i] : i \in 1..26} \cup {"_"}

AllIn(s, S) == \A i \in 1..Len(s) : s[i] \in S

DigitVal(c) == CHOOSE n \in 0..9 : ToString(n) = c

\* Number.parseInt of a string of decimal digits.
RECURSIVE ParseInt(_)
ParseInt(s) ==
    IF s = <<>> THEN 0
    ELSE 10 * ParseInt(SubSeq(s, 1, Len(s) - 1)) + DigitVal(s[Len(s)])

ToUpperCase(c) ==
    IF \E i \in 1..26 : Lower[i] = c
    THEN Upper[CHOOSE i \in 1..26 : Lower[i] = c]
    ELSE c

\* s.replace(from, to) with a one-character string pattern: the first match only.
ReplaceFirst(s, from, to) ==
    LET hits == {i \in 1..Len(s) : s[i] = from}
    IN  IF hits = {} THEN s ELSE [s EXCEPT ![Min(hits)] = to]

\* s.replace(/^./, (str) => str.toUpperCase())
UpperFirst(s) ==
    IF s = <<>> \/ s[1] \in {"\n", "\r"} THEN s
    ELSE <<ToUpperCase(s[1])>> \o Tail(s)

\* a.localeCompare(b) on strings of digits: -1, 0 or 1.
RECURSIVE LocaleCompare(_, _)
LocaleCompare(a, b) ==
    IF a = <<>> /\ b = <<>> THEN 0
    ELSE IF a = <<>> THEN -1
    ELSE IF b = <<>> THEN 1
    ELSE IF a[1] = b[1] THEN LocaleCompare(Tail(a), Tail(b))
    ELSE IF DigitVal(a[1]) < DigitVal(b[1]) THEN -1 ELSE 1

\* Mutant: the comparator with its operands swapped (oldest first).
DateComparatorAscending(dateA, dateB) == LocaleCompare(dateA, dateB)

\* The comparator of both routes: (a, b) => dateB.localeCompare(dateA).
DateComparator(dateA, dateB) == LocaleCompare(dateB, dateA)

\* Array.prototype.sort / toSorted (stable) under DateComparator, on the
\* sequence of the elements' dates: the indices in their sorted order.
RECURSIVE SortedOrder(_)
SortedOrder(dates) ==
    IF dates = <<>> THEN <<>>
    ELSE LET n     == Len(dates)
             prev  == SortedOrder(SubSeq(dates, 1, n - 1))
             after == {i \in 1..Len(prev) : DateComparator(dates[prev[i]], dates[n]) > 0}
             p     == IF after = {} THEN Len(prev) + 1 ELSE Min(after)
         IN  SubSeq(prev, 1, p - 1) \o <<n>> \o SubSeq(prev, p, Len(prev))

SortByDate(s, dates) == LET order == SortedOrder(dates) IN [i \in 1..Len(s) |-> s[order[i]]]

\* Mutant: the month handed to Date without the "- 1".
NewDateMonthFromOne(dateStr) ==
    [year       |-> ParseInt(Slice(dateStr, 0, 4)),
     monthIndex |-> ParseInt(Slice(dateStr, 4, 6)),
     day        |-> ParseInt(Slice(dateStr, 6, 8))]

\* new Date(parseInt(d.slice(0, 4)), parseInt(d.slice(4, 6)) - 1, parseInt(d.slice(6, 8)))
NewDate(dateStr) ==
    [year       |-> ParseInt(Slice(dateStr, 0, 4)),
     monthIndex |-> ParseInt(Slice(dateStr, 4, 6)) - 1,
     day        |-> ParseInt(Slice(dateStr, 6, 8))]

----------------------------------------------------------------------------
(* File names and the name filters *)

Csv == <<".", "c", "s", "v">>
Png == <<".", "p", "n", "g">>

SelectedSuffix == <<"_", "s", "e", "l", "e", "c", "t", "e", "d",
                    "_", "s", "t", "o", "c", "k", "s">> \o Csv

IndustryStocks == <<"_", "i", "n", "d", "u", "s", "t", "r", "y",
                    "_", "s", "t", "o", "c", "k", "s">> \o Csv

TopSuffix == <<"_", "t", "o", "p">> \o IndustryStocks

BottomSuffix == <<"_", "b", "o", "t", "t", "o", "m">> \o IndustryStocks

ImageSuffix == <<"_", "i", "n", "d", "u", "s", "t", "r", "y", "_", "p", "e", "r", "f",
                 "o", "r", "m", "a", "n", "c", "e", "_", "t", "r", "e", "n", "d">> \o Png

\* /^\d{8}_\w+_selected_stocks\.csv$/.test(name)
MatchesSelected(name) ==
    LET n == Len(name)
        m == Len(SelectedSuffix)
    IN  /\ n >= 8 + 1 + 1 + m
        /\ AllIn(SubSeq(name, 1, 8), Digits)
        /\ name[9] = "_"
        /\ AllIn(SubSeq(name, 10, n - m), WordChars)
        /\ EndsWith(name, SelectedSuffix)

\* /^\d{8}<suffix>$/.test(name)
MatchesDated(name, suffix) ==
    /\ Len(name) = 8 + Len(suffix)
    /\ AllIn(SubSeq(name, 1, 8), Digits)
    /\ EndsWith(name, suffix)

isStockFile(file) == file.isFile /\ EndsWith(file.name, Csv) /\ MatchesSelected(file.name)

isTopCSV(file) == file.isFile /\ EndsWith(file.name, Csv) /\ MatchesDated(file.name, TopSuffix)

isBottomCSV(file) == file.isFile /\ EndsWith(file.name, Csv) /\ MatchesDated(file.name, BottomSuffix)

isImage(file) == file.isFile /\ EndsWith(file.name, Png) /\ MatchesDated(file.name, ImageSuffix)

Directory == "/data/stock"

\* path.join(directory, name) and path.basename(p)
PathJoin(directory, name) == <<directory, "/">> \o name

\* Mutant: the image URL built from the whole path.
BasenameWholePath(p) == p

Basename(p) ==
    LET slashes == {i \in 1..Len(p) : p[i] = "/"}
    IN  IF slashes = {} THEN p ELSE SubSeq(p, Max(slashes) + 1, Len(p))

----------------------------------------------------------------------------
(* Stockpicker: the feed item of one file *)

\* `${record.key}` in a template literal: a missing key prints "undefined".
Field(record, key) == IF <<key>> \in DOMAIN record THEN record[<<key>>] ELSE <<"undefined">>

\* if (record.key)
Truthy(record, key) == <<key>> \in DOMAIN record /\ record[<<key>>] # <<>>

\* const [dateStr, type] = file.name.split('_', 2)
NameParts(name) == SplitLimit(name, "_", 2)

\* type.replace('_', ' ').replace(/^./, (str) => str.toUpperCase())
FormatType(type) == UpperFirst(ReplaceFirst(type, "_", " "))

\* Fixed texts of the source, written in ASCII:
\*   " 选股结果"  "**日期**: "  "**选股数量**: "  "只"  "所属行业: "  "选股权重: "  "PE百分位: "
ResultsOf == " selection results"
DateLabel == "**date**: "
CountLabel == "**count**: "
CountUnit == " stocks"
IndustryLabel == "   - industry: "
WeightLabel == "   - weight: "
PeLabel == "   - PE: "
PePercentileLabel == "   - PE percentile: "

StockLines(record, index) ==
    <<ToString(index), ". **">> \o Field(record, "name") \o <<"** (">>
        \o Field(record, "ts_code") \o <<")", "\n">>
    \o <<IndustryLabel>> \o Field(record, "industry") \o <<"\n">>
    \o <<WeightLabel>> \o Field(record, "target_weight") \o <<"\n">>
    \o (IF Truthy(record, "pe") THEN <<PeLabel>> \o record[<<"pe">>] \o <<"\n">> ELSE <<>>)
    \o (IF Truthy(record, "pe_percentile")
        THEN <<PePercentileLabel>> \o record[<<"pe_percentile">>] \o <<"\n">> ELSE <<>>)
    \o <<"\n">>

RECURSIVE StockBody(_, _)
StockBody(records, n) ==
    IF n = 0 THEN <<>> ELSE StockBody(records, n - 1) \o StockLines(records[n], n)

StockItem(name, text) ==
    LET records       == parseCSV_stockpicker(text)
        dateStr       == NameParts(name)[1]
        type          == NameParts(name)[2]
        formattedType == FormatType(type)
    IN  [title       |-> dateStr \o <<" ">> \o formattedType \o <<ResultsOf>>,
         description |-> <<"### ">> \o formattedType \o <<ResultsOf, "\n", "\n">>
                         \o <<DateLabel>> \o dateStr \o <<"\n">>
                         \o <<CountLabel, ToString(Len(records)), CountUnit, "\n", "\n">>
                         \o StockBody(records, Len(records)),
         pubDate     |-> NewDate(dateStr),
         category    |-> <<type>>]

\* files.filter(...).filter(...) followed by stockFiles.sort(...)
StockFiles(listing) ==
    LET matched == SelectSeq(listing, isStockFile)
    IN  SortByDate(matched, [i \in 1..Len(matched) |-> Slice(matched[i].name, 0, 8)])

\* Feed title and description: '每日选股数据' and '每日选股数据RSS源'
PickerTitle == "daily stock picks"
PickerDescription == <<"daily stock picks RSS feed">>

\* The array Promise.all resolves with: the callbacks' results in array order.
RECURSIVE ItemsOf(_, _)
ItemsOf(ts, n) == IF n = 0 THEN <<>> ELSE ItemsOf(ts, n - 1) \o ts[n].item

Items == ItemsOf(tasks, Len(tasks))

\* The first readFile to settle.
Settle(i) == firstCompleted' = IF firstCompleted = 0 THEN i ELSE firstCompleted

\* Mutant: Promise.race-like join, resolved by the first callback to finish.
SomeDone == \E i \in 1..Len(tasks) : tasks[i].state = "done"

AllDone == \A i \in 1..Len(tasks) : tasks[i].state = "done"

----------------------------------------------------------------------------
(* The directory and the file contents *)

Entry(name, isFile) == [name |-> name, isFile |-> isFile]

D1 == <<"2", "0", "2", "4", "0", "1", "0", "1">>
D2 == <<"2", "0", "2", "4", "0", "1", "0", "2">>
D3 == <<"2", "0", "2", "4", "0", "1", "0", "3">>

LabelVal == <<"_", "v", "a", "l">>
LabelSmCap == <<"_", "s", "m", "_", "c", "a", "p">>
Notes == <<"n", "o", "t", "e", "s", ".", "t", "x", "t">>

PickerEntries ==
    { Entry(D1 \o LabelVal \o SelectedSuffix, TRUE),
      Entry(D2 \o SelectedSuffix, TRUE),
      Entry(D2 \o LabelSmCap \o SelectedSuffix, TRUE),
      Entry(D2 \o LabelVal \o SelectedSuffix, TRUE),
      Entry(D3 \o LabelVal \o SelectedSuffix, TRUE),
      Entry(D3 \o LabelVal \o SelectedSuffix, FALSE),
      Entry(Notes, TRUE) }

RotationEntries ==
    { Entry(D1 \o TopSuffix, TRUE), Entry(D1 \o BottomSuffix, TRUE), Entry(D1 \o ImageSuffix, TRUE),
      Entry(D2 \o TopSuffix, TRUE), Entry(D2 \o BottomSuffix, TRUE), Entry(D2 \o ImageSuffix, TRUE),
      Entry(D2 \o TopSuffix, FALSE) }

\* Listings of at most max entries with pairwise different names, in any order.
Listings(entries, max) ==
    {l \in UNION {[1..n -> entries] : n \in 0..max} :
        \A i, j \in 1..Len(l) : i # j => l[i].name # l[j].name}

Dirs(entries, max) ==
    {[readable |-> TRUE, listing |-> l] : l \in Listings(entries, max)}
    \cup {[readable |-> FALSE, listing |-> <<>>]}

ExampleContent ==
    <<"ts_code", ",", "target_weight", ",", "name", ",", "industry", ",", "pe", ",",
      "pe_percentile", "\n",
      "000001.SZ", ",", "0.05", ",", "PingAn", ",", "Banking", ",", "10.2", ",", "50">>

ShortContent ==
    <<"name", ",", "ts_code", ",", "industry", "\r", "\n", "Solo", "\n">>

Contents == {ExampleContent, ShortContent}

ReaddirError == "ENOENT: no such file or directory"

----------------------------------------------------------------------------
(* Stockpicker handler *)

StockpickerReaddir ==
    /\ route = "stockpicker"
    /\ pc = "start"
    /\ IF ~dir.readable
       THEN /\ pc' = "thrown"
            /\ error' = "readdir"
            /\ UNCHANGED <<files, tasks, reads>>
       ELSE LET stockFiles == StockFiles(dir.listing)
            IN  /\ files' = dir.listing
                /\ tasks' = [i \in 1..Len(stockFiles) |->
                               [file  |-> PathJoin(Directory, stockFiles[i].name),
                                name  |-> stockFiles[i].name,
                                state |-> "reading",
                                text  |-> <<>>,
                                item  |-> <<>>]]
                /\ reads' = Len(stockFiles)
                /\ pc' = "reading"
                /\ UNCHANGED error
    /\ UNCHANGED <<route, dir, baseUrl, status, result, firstCompleted, content, parsed>>

\* readFile of task i resolves with text: the callback builds its item.
StockpickerReadOk(i, text) ==
    /\ route = "stockpicker"
    /\ pc \in {"reading", "thrown"}
    /\ tasks[i].state = "reading"
    /\ tasks' = [tasks EXCEPT ![i].state = "done",
                              ![i].text = <<text>>,
                              ![i].item = <<StockItem(tasks[i].name, text)>>]
    /\ Settle(i)
    /\ UNCHANGED <<route, dir, baseUrl, pc, files, reads, status, result, error, content, parsed>>

\* readFile of task i rejects: Promise.all rejects with the first rejection.
StockpickerReadFail(i) ==
    /\ route = "stockpicker"
    /\ pc \in {"reading", "thrown"}
    /\ tasks[i].state = "reading"
    /\ tasks' = [tasks EXCEPT ![i].state = "failed"]
    /\ pc' = "thrown"
    /\ error' = IF pc = "reading" THEN "readFile" ELSE error
    /\ Settle(i)
    /\ UNCHANGED <<route, dir, baseUrl, files, reads, status, result, content, parsed>>

StockpickerReturn ==
    /\ route = "stockpicker"
    /\ pc = "reading"
    /\ AllDone
    /\ result' = <<[title       |-> PickerTitle,
                    link        |-> Directory,
                    description |-> PickerDescription,
                    item        |-> Items]>>
    /\ pc' = "returned"
    /\ UNCHANGED <<route, dir, baseUrl, files, tasks, reads, status, error,
                   firstCompleted, content, parsed>>

----------------------------------------------------------------------------
(* Rotation monitor: grouping by date and the feed item of one date *)

\* filesByDate, a Map in insertion order: one entry per date.  '' and null
\* (both falsy) are the empty sequence.
MapHas(m, date) == \E i \in 1..Len(m) : m[i].date = date

MapGet(m, date) == m[CHOOSE i \in 1..Len(m) : m[i].date = date]

MapSet(m, date, value) ==
    IF MapHas(m, date)
    THEN [m EXCEPT ![CHOOSE i \in 1..Len(m) : m[i].date = date] = value]
    ELSE Append(m, value)

NoFiles(date) == [date |-> date, top |-> <<>>, bottom |-> <<>>, image |-> <<>>]

RECURSIVE AddTops(_, _, _)
AddTops(m, topFiles, n) ==
    IF n = 0 THEN m
    ELSE LET prev    == AddTops(m, topFiles, n - 1)
             dateStr == Slice(topFiles[n].name, 0, 8)
             old     == IF MapHas(prev, dateStr) THEN MapGet(prev, dateStr) ELSE NoFiles(dateStr)
         IN  MapSet(prev, dateStr, [old EXCEPT !.top = PathJoin(Directory, topFiles[n].name)])

RECURSIVE AddBottoms(_, _, _)
AddBottoms(m, bottomFiles, n) ==
    IF n = 0 THEN m
    ELSE LET prev    == AddBottoms(m, bottomFiles, n - 1)
             dateStr == Slice(bottomFiles[n].name, 0, 8)
         IN  IF MapHas(prev, dateStr)
             THEN MapSet(prev, dateStr, [MapGet(prev, dateStr) EXCEPT
                            !.bottom = PathJoin(Directory, bottomFiles[n].name)])
             ELSE prev

RECURSIVE AddImages(_, _, _)
AddImages(m, imageFiles, n) ==
    IF n = 0 THEN m
    ELSE LET prev    == AddImages(m, imageFiles, n - 1)
             dateStr == Slice(imageFiles[n].name, 0, 8)
         IN  IF MapHas(prev, dateStr)
             THEN MapSet(prev, dateStr, [MapGet(prev, dateStr) EXCEPT
                            !.image = PathJoin(Directory, imageFiles[n].name)])
             ELSE prev

FilesByDate(listing) ==
    LET topFiles    == SelectSeq(listing, isTopCSV)
        bottomFiles == SelectSeq(listing, isBottomCSV)
        imageFiles  == SelectSeq(listing, isImage)
        tops        == AddTops(<<>>, topFiles, Len(topFiles))
        bottoms     == AddBottoms(tops, bottomFiles, Len(bottomFiles))
    IN  AddImages(bottoms, imageFiles, Len(imageFiles))

\* Mutant: the filter without `&& files.bottom`.
IsCompleteTopOnly(group) == group.top # <<>>

IsComplete(group) == group.top # <<>> /\ group.bottom # <<>>

ValidRotationData(listing) ==
    LET valid == SelectSeq(FilesByDate(listing), IsComplete)
    IN  SortByDate(valid, [i \in 1..Len(valid) |-> valid[i].date])

\* Fixed texts of the source, written in ASCII:
\*   '轮动行情监控'  '读取失败'  '无法读取目录: '  '，错误信息: '
\*   '未找到符合规则的轮动行情CSV文件'  '未找到完整的轮动行情数据'
\*   '每日轮动行情监控，包括领涨板块和高潜板块数据'  '未知行业'
\*   '![行业表现趋势]('  '> 暂无行业表现趋势图表'
RotationTitle == "rotation monitor"
ReadFailedTitle == "read failed"
CannotReadDirectory == "cannot read directory: "
ErrorMessageLabel == ", error message: "
NoCsvDescription == "no rotation CSV files matching the naming rule were found"
NoCompleteDescription == "no complete rotation data was found"
RotationDescription == "daily rotation monitor with the leading and the high-potential sector"
UnknownIndustry == "unknown industry"
ImageOpen == "![industry performance trend]("
NoChartNotice == "> no industry performance trend chart available"
DefaultBaseUrl == "http://localhost:1200/rotation-images"

\* records[0]?.industry || '未知行业'
FirstIndustry(records) ==
    IF Len(records) >= 1 /\ Truthy(records[1], "industry")
    THEN records[1][<<"industry">>]
    ELSE <<UnknownIndustry>>

RECURSIVE StockList(_, _)
StockList(records, n) ==
    IF n = 0 THEN <<>>
    ELSE StockList(records, n - 1)
         \o <<ToString(n), ". **">> \o Field(records[n], "name") \o <<"** (">>
         \o Field(records[n], "ts_code") \o <<")", "\n">>

\* `${process.env.ROTATION_IMAGE_BASE_URL || 'http://localhost:1200/rotation-images'}/${imageFileName}`
ImageUrl(base, image) ==
    <<IF base # "" THEN base ELSE DefaultBaseUrl, "/">> \o Basename(image)

ChartSection(base, image) ==
    IF image # <<>>
    THEN <<ImageOpen>> \o ImageUrl(base, image) \o <<")", "\n", "\n">>
    ELSE <<NoChartNotice, "\n", "\n">>

\* The Markdown text handed to md.render.
RotationItem(group, topRecords, bottomRecords, base) ==
    [title       |-> group.date \o <<" ", RotationTitle>>,
     description |-> <<"# ", RotationTitle, "\n", "\n", "> date: ">> \o group.date \o <<"\n", "\n">>
                     \o <<"## leading sector: ">> \o FirstIndustry(topRecords) \o <<"\n", "\n">>
                     \o <<"### stocks", "\n", "\n">>
                     \o StockList(topRecords, Len(topRecords)) \o <<"\n">>
                     \o <<"## high-potential sector: ">> \o FirstIndustry(bottomRecords) \o <<"\n", "\n">>
                     \o <<"### stocks", "\n", "\n">>
                     \o StockList(bottomRecords, Len(bottomRecords)) \o <<"\n">>
                     \o <<"## industry performance trend", "\n", "\n">>
                     \o ChartSection(base, group.image),
     pubDate     |-> NewDate(group.date),
     category    |-> <<"rotation", "stock">>]

----------------------------------------------------------------------------
(* Rotation monitor handler *)

EmptyFeed(description) ==
    [title |-> RotationTitle, link |-> Directory, description |-> description, item |-> <<>>]

\* Mutant: the catch block without `ctx.status = 400`.
RotationReaddirCatchNoStatus ==
    /\ result' = <<[title       |-> ReadFailedTitle,
                    description |-> <<CannotReadDirectory, Directory,
                                      ErrorMessageLabel, ReaddirError>>,
                    item        |-> <<>>]>>
    /\ pc' = "returned"
    /\ UNCHANGED <<files, tasks, reads, error, status>>

\* The catch block around readdir.
RotationReaddirCatch ==
    /\ status' = 400
    /\ result' = <<[title       |-> ReadFailedTitle,
                    description |-> <<CannotReadDirectory, Directory,
                                      ErrorMessageLabel, ReaddirError>>,
                    item        |-> <<>>]>>
    /\ pc' = "returned"
    /\ UNCHANGED <<files, tasks, reads, error>>

RotationReaddir ==
    /\ route = "rotation"
    /\ pc = "start"
    /\ IF ~dir.readable
       THEN RotationReaddirCatch
       ELSE LET topFiles    == SelectSeq(dir.listing, isTopCSV)
                bottomFiles == SelectSeq(dir.listing, isBottomCSV)
                valid       == ValidRotationData(dir.listing)
            IN  /\ files' = dir.listing
                /\ UNCHANGED <<status, error>>
                /\ IF Len(topFiles) = 0 \/ Len(bottomFiles) = 0
                   THEN /\ result' = <<EmptyFeed(<<NoCsvDescription>>)>>
                        /\ pc' = "returned"
                        /\ UNCHANGED <<tasks, reads>>
                   ELSE IF Len(valid) = 0
                   THEN /\ result' = <<EmptyFeed(<<NoCompleteDescription>>)>>
                        /\ pc' = "returned"
                        /\ UNCHANGED <<tasks, reads>>
                   ELSE /\ tasks' = [i \in 1..Len(valid) |->
                                       [group      |-> valid[i],
                                        state      |-> "readTop",
                                        topRecords |-> <<>>,
                                        item       |-> <<>>]]
                        /\ reads' = Len(valid)
                        /\ pc' = "reading"
                        /\ UNCHANGED result
    /\ UNCHANGED <<route, dir, baseUrl, firstCompleted, content, parsed>>

\* readFile(files.top) of task i resolves: the callback goes on to read files.bottom.
RotationReadTopOk(i, text) ==
    /\ route = "rotation"
    /\ pc \in {"reading", "thrown"}
    /\ tasks[i].state = "readTop"
    /\ tasks' = [tasks EXCEPT ![i].state = "readBottom",
                              ![i].topRecords = parseCSV_rotation(text)]
    /\ reads' = reads + 1
    /\ Settle(i)
    /\ UNCHANGED <<route, dir, baseUrl, pc, files, status, result, error, content, parsed>>

\* readFile(files.bottom) of task i resolves: the callback builds its item.
RotationReadBottomOk(i, text) ==
    /\ route = "rotation"
    /\ pc \in {"reading", "thrown"}
    /\ tasks[i].state = "readBottom"
    /\ tasks' = [tasks EXCEPT
                   ![i].state = "done",
                   ![i].item = <<RotationItem(tasks[i].group, tasks[i].topRecords,
                                              parseCSV_rotation(text), baseUrl)>>]
    /\ Settle(i)
    /\ UNCHANGED <<route, dir, baseUrl, pc, files, reads, status, result, error, content, parsed>>

\* Mutant: the rejection of a read swallowed inside the callback.
RotationReadFailSwallowed(i) ==
    /\ route = "rotation"
    /\ pc \in {"reading", "thrown"}
    /\ tasks[i].state \in {"readTop", "readBottom"}
    /\ tasks' = [tasks EXCEPT ![i].state = "failed"]
    /\ Settle(i)
    /\ UNCHANGED <<route, dir, baseUrl, pc, files, reads, status, result, error, content, parsed>>

\* Either readFile of task i rejects: Promise.all rejects with the first rejection.
RotationReadFail(i) ==
    /\ route = "rotation"
    /\ pc \in {"reading", "thrown"}
    /\ tasks[i].state \in {"readTop", "readBottom"}
    /\ tasks' = [tasks EXCEPT ![i].state = "failed"]
    /\ pc' = "thrown"
    /\ error' = IF pc = "reading" THEN "readFile" ELSE error
    /\ Settle(i)
    /\ UNCHANGED <<route, dir, baseUrl, files, reads, status, result, content, parsed>>

RotationReturn ==
    /\ route = "rotation"
    /\ pc = "reading"
    /\ AllDone
    /\ result' = <<[title       |-> RotationTitle,
                    link        |-> Directory,
                    description |-> <<RotationDescription>>,
                    item        |-> Items]>>
    /\ pc' = "returned"
    /\ UNCHANGED <<route, dir, baseUrl, files, tasks, reads, status, error,
                   firstCompleted, content, parsed>>

----------------------------------------------------------------------------
(* One request to either route *)

BaseUrls == {"", "https://cdn.example/img"}

Init ==
    /\ route \in {"stockpicker", "rotation"}
    /\ dir \in IF route = "stockpicker"
               THEN Dirs(PickerEntries, MaxPickerFiles)
               ELSE Dirs(RotationEntries, MaxRotationFiles)
    /\ baseUrl \in IF route = "rotation" THEN BaseUrls ELSE {""}
    /\ pc = "start"
    /\ files = <<>>
    /\ tasks = <<>>
    /\ reads = 0
    /\ status = 200
    /\ result = <<>>
    /\ error = ""
    /\ firstCompleted = 0
    /\ content = <<>>
    /\ parsed = <<>>

Next ==
    \/ StockpickerReaddir
    \/ \E i \in 1..Len(tasks), text \in Contents : StockpickerReadOk(i, text)
    \/ \E i \in 1..Len(tasks) : StockpickerReadFail(i)
    \/ StockpickerReturn
    \/ RotationReaddir
    \/ \E i \in 1..Len(tasks), text \in Contents : RotationReadTopOk(i, text)
    \/ \E i \in 1..Len(tasks), text \in Contents : RotationReadBottomOk(i, text)
    \/ \E i \in 1..Len(tasks) : RotationReadFail(i)
    \/ RotationReturn

Spec == Init /\ [][Next]_vars

----------------------------------------------------------------------------
(* Vocabulary of the properties *)

Dates == {D1, D2, D3}

\* Names the stockpicker filter is written for: date, label, fixed suffix.
LabelledNames == {d \o l \o SelectedSuffix : d \in Dates, l \in {LabelVal, LabelSmCap}}

\* The name of the worked example of the specification: no label.
ExampleName == D2 \o SelectedSuffix

\* The listing holds a regular file of this name.
HasFile(name) == \E i \in 1..Len(dir.listing) : dir.listing[i] = Entry(name, TRUE)

Returned == pc = "returned" /\ result # <<>>

Feed == result[1]

\* Both routes start an item's title with the 8-character date.
ItemDate(item) == SubSeq(item.title, 1, 8)

DateNumber(d) == ParseInt(d)

Descending(items) ==
    \A i, j \in 1..Len(items) :
        i < j => DateNumber(ItemDate(items[i])) >= DateNumber(ItemDate(items[j]))

ItemsOn(items, d) == {i \in 1..Len(items) : ItemDate(items[i]) = d}

Paired(d) == HasFile(d \o TopSuffix) /\ HasFile(d \o BottomSuffix)

TaskDate(i) ==
    IF route = "stockpicker" THEN SubSeq(tasks[i].name, 1, 8) ELSE tasks[i].group.date

----------------------------------------------------------------------------
(* C1 *)

\* C1: when the stockpicker handler returns for a readable directory, the feed
\* has exactly one item per regular file with a matching name (per date, as many
\* items as matching files of that date; none for other entries), and the items
\* are in descending order of the 8-digit date.
C1_OneItemPerFileDescending ==
    (route = "stockpicker" /\ Returned) =>
        LET matching == {n \in LabelledNames : HasFile(n)}
        IN  /\ Len(Feed.item) = Cardinality(matching)
            /\ \A d \in Dates :
                   Cardinality(ItemsOn(Feed.item, d))
                       = Cardinality({n \in matching : SubSeq(n, 1, 8) = d})
            /\ Descending(Feed.item)

\* Two matching files listed oldest first, beside an entry that is not a file.
C1_Witness ==
    /\ route = "stockpicker"
    /\ Returned
    /\ Len(Feed.item) = 2
    /\ Len(dir.listing) = 3
    /\ ItemDate(Feed.item[1]) # ItemDate(Feed.item[2])
    /\ \E i \in 1..3 : ~dir.listing[i].isFile
    /\ \E i, j \in 1..3 :
          /\ i < j
          /\ dir.listing[i] = Entry(D1 \o LabelVal \o SelectedSuffix, TRUE)
          /\ dir.listing[j] = Entry(D2 \o LabelSmCap \o SelectedSuffix, TRUE)

----------------------------------------------------------------------------
(* C2 *)

\* C2: when the rotation-monitor handler returns for a readable directory, the
\* feed has an item for date D exactly when the listing holds both regular files
\* D_top_industry_stocks.csv and D_bottom_industry_stocks.csv; the number of
\* items is the number of such dates, and the items are in descending date order.
C2_ItemIffBothCsv ==
    (route = "rotation" /\ Returned /\ dir.readable) =>
        /\ \A d \in Dates : (ItemsOn(Feed.item, d) # {}) <=> Paired(d)
        /\ Len(Feed.item) = Cardinality({d \in Dates : Paired(d)})
        /\ Descending(Feed.item)

\* One complete date, and a later date with its top CSV and image but no bottom CSV.
C2_Witness ==
    /\ route = "rotation"
    /\ Returned
    /\ Len(Feed.item) = 1
    /\ ItemDate(Feed.item[1]) = D1
    /\ HasFile(D2 \o TopSuffix)
    /\ HasFile(D2 \o ImageSuffix)
    /\ ~HasFile(D2 \o BottomSuffix)

----------------------------------------------------------------------------
(* C3 *)

\* A description that says why the feed is empty, not the one a feed with items gets.
Explanatory(description) ==
    /\ description # <<>>
    /\ description \notin {PickerDescription, <<RotationDescription>>}

NothingMatches ==
    IF route = "stockpicker"
    THEN \A n \in LabelledNames : ~HasFile(n)
    ELSE \A d \in Dates : ~Paired(d)

\* C3: for a readable directory with no matching file (rotation monitor: no date
\* with both CSVs), either handler returns without error a feed with zero items
\* and a non-empty description that explains why there are none.
C3_EmptyFeedExplained ==
    (route \in {"stockpicker", "rotation"} /\ dir.readable /\ NothingMatches) =>
        /\ pc # "thrown"
        /\ Returned => /\ Len(Feed.item) = 0
                       /\ Explanatory(Feed.description)

----------------------------------------------------------------------------
(* C4 *)

BodyHasExampleRecord(item) ==
    /\ Contains(item.description, <<"PingAn">>)
    /\ Contains(item.description, <<"000001.SZ">>)
    /\ Contains(item.description, <<"0.05">>)
    /\ Contains(item.description, <<"Banking">>)

\* 2024-01-02 as the Date constructor takes it (months count from 0).
Jan2 == [year |-> 2024, monthIndex |-> 0, day |-> 2]

IsExampleItem(i) ==
    /\ tasks[i].text = <<ExampleContent>>
    /\ BodyHasExampleRecord(Feed.item[i])
    /\ Feed.item[i].pubDate = Jan2

----------------------------------------------------------------------------
(* C5 *)

\* C5: when readdir fails, the rotation-monitor handler returns, with status 400,
\* a feed with no items whose description names the directory and the error, and
\* reads no file; the stockpicker handler returns no feed and rejects with the
\* readdir error.
C5_ReaddirFailure ==
    (route \in {"stockpicker", "rotation"} /\ ~dir.readable /\ pc # "start") =>
        IF route = "rotation"
        THEN /\ Returned
             /\ error = ""
             /\ status = 400
             /\ Feed.item = <<>>
             /\ Contains(Feed.description, <<Directory>>)
             /\ Contains(Feed.description, <<ReaddirError>>)
             /\ reads = 0
        ELSE /\ pc = "thrown"
             /\ error = "readdir"
             /\ result = <<>>
             /\ reads = 0

C5_Witness ==
    /\ route = "rotation"
    /\ ~dir.readable
    /\ Returned
    /\ status = 400

----------------------------------------------------------------------------
(* C6 *)

EffectiveBase == IF baseUrl = "" THEN DefaultBaseUrl ELSE baseUrl

ImageReference(d) == <<ImageOpen, EffectiveBase, "/">> \o d \o ImageSuffix \o <<")">>

WithoutImages(listing) == SelectSeq(listing, LAMBDA file : ~EndsWith(file.name, Png))

\* C6: every item the rotation monitor returns for a date D holds the image
\* reference <base URL>/<D_industry_performance_trend.png> exactly when that
\* regular file is listed, and the no-chart notice exactly when it is not; and
\* the dates that get an item are those the listing without its images gives.
C6_ImageOrNotice ==
    (route = "rotation" /\ Returned /\ dir.readable) =>
        /\ \A i \in 1..Len(Feed.item) :
              LET d    == ItemDate(Feed.item[i])
                  body == Feed.item[i].description
              IN  /\ Contains(body, ImageReference(d)) <=> HasFile(d \o ImageSuffix)
                  /\ Contains(body, <<NoChartNotice>>) <=> ~HasFile(d \o ImageSuffix)
                  /\ Contains(body, <<ImageOpen>>) <=> ~Contains(body, <<NoChartNotice>>)
        /\ LET bare == ValidRotationData(WithoutImages(dir.listing))
           IN  /\ Len(bare) = Len(Feed.item)
               /\ \A i \in 1..Len(bare) : bare[i].date = ItemDate(Feed.item[i])

\* Two items, one with its image listed and one without.
C6_Witness ==
    /\ route = "rotation"
    /\ Returned
    /\ Len(Feed.item) = 2
    /\ HasFile(D2 \o ImageSuffix)
    /\ ~HasFile(D1 \o ImageSuffix)
    /\ baseUrl # ""

----------------------------------------------------------------------------
(* C8 *)

Pending(i) == tasks[i].state \in {"reading", "readTop", "readBottom"}

----------------------------------------------------------------------------
(* C9 *)

\* C9: once the read of one matched file has failed, in either route, the
\* handler has rejected with that failure and returns no feed, partial, empty or
\* degraded (the status stays unset), whatever the other reads do.
C9_FailedReadAborts ==
    (\E i \in 1..Len(tasks) : tasks[i].state = "failed") =>
        /\ pc = "thrown"
        /\ error = "readFile"
        /\ result = <<>>
        /\ status = 200

\* One read failed, another task read both its files.
C9_Witness ==
    /\ route = "rotation"
    /\ \E i, j \in 1..Len(tasks) :
          /\ tasks[i].state = "failed"
          /\ tasks[j].state = "done"
    /\ firstCompleted # 0
    /\ tasks[firstCompleted].state = "done"

----------------------------------------------------------------------------
(* C10 *)

\* The part of a matched name between "<date>_" and "_selected_stocks.csv".
WholeLabel(name) == SubSeq(name, 10, Len(name) - Len(SelectedSuffix))

\* C10: for every matched file the label of its item is the whole part of the
\* name between the date and the suffix, first letter capitalized, and that
\* label is both the item's category and the type in the item's title.  Read
\* generously: the category may hold the label as written or capitalized, and
\* the title may show its first underscore as a space.
C10_WholeLabelCapitalized ==
    (route = "stockpicker" /\ Returned) =>
        \A i \in 1..Len(tasks) :
            LET label == WholeLabel(tasks[i].name)
            IN  /\ Feed.item[i].category \in {<<label>>, <<UpperFirst(label)>>}
                /\ \E shown \in {UpperFirst(label), FormatType(label)} :
                       Feed.item[i].title = TaskDate(i) \o <<" ">> \o shown \o <<ResultsOf>>

----------------------------------------------------------------------------
(* Parser specification: parseCSV applied to every short text *)

Alphabet == {"a", "b", ",", " ", "\n"}

Texts == UNION {[1..n -> Alphabet] : n \in 0..MaxTextLen}

Idle ==
    /\ route = "none"
    /\ dir = [readable |-> FALSE, listing |-> <<>>]
    /\ baseUrl = ""
    /\ pc = "idle"
    /\ files = <<>>
    /\ tasks = <<>>
    /\ reads = 0
    /\ status = 200
    /\ result = <<>>
    /\ error = ""
    /\ firstCompleted = 0

InitCSV ==
    /\ Idle
    /\ content \in Texts
    /\ parsed = <<>>

ParseStockpicker ==
    /\ pc = "idle"
    /\ parsed = <<>>
    /\ parsed' = <<[by |-> "stockpicker", records |-> parseCSV_stockpicker(content)]>>
    /\ UNCHANGED <<route, dir, baseUrl, pc, files, tasks, reads, status, result, error,
                   firstCompleted, content>>

ParseRotation ==
    /\ pc = "idle"
    /\ parsed = <<>>
    /\ parsed' = <<[by |-> "rotation", records |-> parseCSV_rotation(content)]>>
    /\ UNCHANGED <<route, dir, baseUrl, pc, files, tasks, reads, status, result, error,
                   firstCompleted, content>>

NextCSV == ParseStockpicker \/ ParseRotation

SpecCSV == InitCSV /\ [][NextCSV]_vars

----------------------------------------------------------------------------
(* C7 *)

Default == IF parsed[1].by = "stockpicker" THEN <<>> ELSE Dash

NonBlank(lines) == SelectSeq(lines, LAMBDA line : Trim(line) # <<>>)

Cells(line) == Split(line, ",")

ColumnNames(line) == {Trim(Cells(line)[i]) : i \in 1..Len(Cells(line))}

\* Column i has no cell in the line, or a cell with nothing in it.
MissingOrEmpty(line, i) == i > Len(Cells(line)) \/ Trim(Cells(line)[i]) = <<>>

\* C7 as stated: the first line of the text is the header; the result has one
\* record per non-blank line after it, in order; each record's keys are the
\* header's column names; every column whose cell is missing or empty holds the
\* route's default ('' or '-').
C7_RecordPerLine ==
    parsed # <<>> =>
        LET lines   == Split(content, "\n")
            header  == lines[1]
            data    == NonBlank(Tail(lines))
            records == parsed[1].records
        IN  /\ Len(records) = Len(data)
            /\ \A k \in 1..Len(data) :
                  /\ DOMAIN records[k] = ColumnNames(header)
                  /\ \A i \in 1..Len(Cells(header)) :
                        MissingOrEmpty(data[k], i)
                            => records[k][Trim(Cells(header)[i])] = Default

\* C7 as amended: the text is first stripped of leading and trailing white
\* space, and the header is the first line of what is left; the result has one
\* record per non-blank line after it, in order; each record's keys are the
\* header's column names; a name holds the trimmed cell of its column, the last
\* one when several columns share the name, and the route's default ('' or '-')
\* when that cell is missing or empty; cells beyond the header are dropped.
C7_RecordPerTrimmedLine ==
    parsed # <<>> =>
        LET lines   == Split(Trim(content), "\n")
            header  == lines[1]
            data    == NonBlank(Tail(lines))
            records == parsed[1].records
        IN  /\ Len(records) = Len(data)
            /\ \A k \in 1..Len(data) :
                  /\ DOMAIN records[k] = ColumnNames(header)
                  /\ \A i \in 1..Len(Cells(header)) :
                        LET name == Trim(Cells(header)[i])
                            last == \A j \in (i + 1)..Len(Cells(header)) :
                                        Trim(Cells(header)[j]) # name
                        IN  last => records[k][name] =
                                      IF MissingOrEmpty(data[k], i)
                                      THEN Default
                                      ELSE Trim(Cells(data[k])[i])

\* A two-column header over a one-cell row.
C7_Witness ==
    /\ parsed # <<>>
    /\ parsed[1].by = "rotation"
    /\ content = <<"a", ",", "b", "\n", "b">>
    /\ Len(parsed[1].records) = 1
    /\ parsed[1].records[1] = (<<"a">> :> <<"b">>) @@ (<<"b">> :> Dash)


=============================================================================
